---- MODULE Spec2Model ----
(***************************************************************************)
(* Model of src/lib/kundliCalculations.ts (Vedic birth-chart computation). *)
(*                                                                         *)
(* The source computes with JavaScript numbers, i.e. IEEE-754 binary64     *)
(* values with round-to-nearest-even.  Boundary behaviour of mod360,       *)
(* calcZodiac and calcNakshatra depends on that rounding, so the model     *)
(* carries numbers as exact binary64 values: a number is a record          *)
(*     [nan |-> BOOLEAN, s |-> 0 or 1, m |-> mantissa, e |-> exponent]     *)
(* standing for (-1)^s * m * 2^e, with m an odd natural number of at most  *)
(* 53 bits (or m = 0, written <<>>).  Mantissas exceed TLC's integers and  *)
(* are little-endian sequences of limbs below BASE.                        *)
(***************************************************************************)
EXTENDS Integers, Sequences, FiniteSets, TLC

\* ------------------------------------------------------------------------
\* Natural numbers of arbitrary size (sequences of limbs, least limb first)
\* ------------------------------------------------------------------------
BASE == 2^15

Max(x, y) == IF x > y THEN x ELSE y

Min(x, y) == IF x < y THEN x ELSE y

MaxOf(S) == CHOOSE x \in S : \A y \in S : y <= x

MinOf(S) == CHOOSE x \in S : \A y \in S : x <= y

\* limb i of a, 0 beyond its length
Limb(a, i) == IF i >= 1 /\ i <= Len(a) THEN a[i] ELSE 0

\* a without its leading zero limbs
BNorm(a) ==
  IF a = <<>> THEN a
  ELSE LET nz == {i \in 1..Len(a) : a[i] # 0}
       IN  IF nz = {} THEN <<>> ELSE SubSeq(a, 1, MaxOf(nz))

\* a natural number below 2^31 as limbs, and back
BFromNat(n) == BNorm(<<n % BASE, (n \div BASE) % BASE, n \div (BASE * BASE)>>)

BToNat(a) == Limb(a, 1) + BASE * Limb(a, 2) + BASE * BASE * Limb(a, 3)

BCmp(a, b) ==
  IF Len(a) < Len(b) THEN -1
  ELSE IF Len(a) > Len(b) THEN 1
  ELSE LET diff == {i \in 1..Len(a) : a[i] # b[i]}
       IN  IF diff = {} THEN 0
           ELSE IF a[MaxOf(diff)] < b[MaxOf(diff)] THEN -1 ELSE 1

\* a + b, the carry into each limb found by look-ahead
BAdd(a, b) ==
  IF a = <<>> THEN b
  ELSE IF b = <<>> THEN a
  ELSE
  LET n        == Max(Len(a), Len(b))
      sum(i)   == Limb(a, i) + Limb(b, i)
      carry(i) == IF \E j \in 1..(i - 1) :
                       sum(j) >= BASE /\ \A l \in (j + 1)..(i - 1) : sum(l) = BASE - 1
                    THEN 1 ELSE 0
  IN  BNorm([i \in 1..(n + 1) |-> (sum(i) + carry(i)) % BASE])

\* a - b for a >= b, the borrow from each limb found by look-ahead
BSub(a, b) ==
  IF b = <<>> THEN a
  ELSE
  LET borrow(i) == IF \E j \in 1..(i - 1) :
                        Limb(a, j) < Limb(b, j)
                        /\ \A l \in (j + 1)..(i - 1) : Limb(a, l) = Limb(b, l)
                     THEN 1 ELSE 0
  IN  BNorm([i \in 1..Len(a) |-> (a[i] - Limb(b, i) - borrow(i) + BASE) % BASE])

\* a * k for 0 <= k < BASE: the low and the high halves of the limb products
BMulSmall(a, k) ==
  IF a = <<>> \/ k = 0 THEN <<>>
  ELSE
  BAdd(BNorm([i \in 1..Len(a) |-> (a[i] * k) % BASE]),
       BNorm([i \in 1..(Len(a) + 1) |-> (Limb(a, i - 1) * k) \div BASE]))

RECURSIVE BMulAt(_, _, _)
BMulAt(a, b, i) ==
  IF i > Len(b) THEN <<>>
  ELSE BAdd(BMulSmall(a, b[i]), BNorm(<<0>> \o BMulAt(a, b, i + 1)))

BMul(a, b) == BMulAt(a, b, 1)

\* a * 2^n
BShl(a, n) ==
  IF a = <<>> \/ n = 0 THEN a
  ELSE
  LET q == n \div 15
      r == 2^(n % 15)
  IN  BNorm([i \in 1..(Len(a) + q + 1) |->
               IF i <= q THEN 0
               ELSE ((Limb(a, i - q) * r) % BASE) + ((Limb(a, i - q - 1) * r) \div BASE)])

\* floor(a / 2^n)
BShr(a, n) ==
  IF a = <<>> \/ n = 0 THEN a
  ELSE
  LET q == n \div 15
      r == 2^(n % 15)
  IN  BNorm([i \in 1..Max(0, Len(a) - q) |->
               (Limb(a, i + q) \div r) + ((Limb(a, i + q + 1) % r) * (BASE \div r))])

\* number of bits of k < BASE
BitLenSmall(k) == MinOf({j \in 0..15 : k < 2^j})

BBitLen(a) ==
  IF a = <<>> THEN 0 ELSE 15 * (Len(a) - 1) + BitLenSmall(a[Len(a)])

\* number of trailing zero bits of a > 0
BTrailingZeros(a) ==
  LET i == MinOf({j \in 1..Len(a) : a[j] # 0})
  IN  15 * (i - 1) + MaxOf({j \in 0..14 : a[i] % 2^j = 0})

\* the sequence s in reverse order
Reverse(s) == [j \in 1..Len(s) |-> s[Len(s) + 1 - j]]

\* one digit of the long division: the largest q with q * b <= r, given
\* r < b * BASE and b's top limb >= BASE / 2 (the estimate from the top limbs
\* is then at most 2 too large)
BDigit(r, b) ==
  IF r = <<>> THEN 0
  ELSE
  LET n   == Len(b)
      est == Min(BASE - 1, (Limb(r, n + 1) * BASE + Limb(r, n)) \div b[n])
  IN  MaxOf({q \in Max(0, est - 2)..est : BCmp(BMulSmall(b, q), r) <= 0})

\* long division by b from limb i down, with r carried in: the digits of the
\* quotient (most significant first), then the remainder as the last element
RECURSIVE BDivModAt(_, _, _, _)
BDivModNext(a, b, i, r1, d) ==
  <<d>> \o BDivModAt(a, b, i - 1, BSub(r1, BMulSmall(b, d)))

BDivModDigit(a, b, i, r1) == BDivModNext(a, b, i, r1, BDigit(r1, b))

BDivModAt(a, b, i, r) ==
  IF i = 0 THEN <<r>> ELSE BDivModDigit(a, b, i, BNorm(<<a[i]>> \o r))

\* quotient and remainder from the n digits and the remainder in d
BDivModOut(d, n, sh) ==
  [q |-> BNorm(Reverse(SubSeq(d, 1, n))), r |-> BShr(d[n + 1], sh)]

\* division of x by y, which are a and the divisor shifted left by sh bits
BDivModNorm(a, x, y, sh) ==
  IF Len(x) < Len(y) THEN [q |-> <<>>, r |-> a]
  ELSE BDivModOut(BDivModAt(x, y, Len(x) - Len(y) + 1,
                            SubSeq(x, Len(x) - Len(y) + 2, Len(x))),
                  Len(x) - Len(y) + 1, sh)

BDivModShift(a, b, sh) == BDivModNorm(a, BShl(a, sh), BShl(b, sh), sh)

\* quotient and remainder of a by b > 0
BDivMod(a, b) == BDivModShift(a, b, 15 - BitLenSmall(b[Len(b)]))

\* ------------------------------------------------------------------------
\* JavaScript numbers (IEEE-754 binary64, round to nearest, ties to even)
\* ------------------------------------------------------------------------
NaN == [nan |-> TRUE, s |-> 0, m |-> <<>>, e |-> 0]

Zero == [nan |-> FALSE, s |-> 0, m |-> <<>>, e |-> 0]

\* (-1)^s * n * 2^e for a mantissa n of at most 53 bits, in canonical form
\* (tz the number of trailing zero bits of n)
CanonShift(s, n, e, tz) == [nan |-> FALSE, s |-> s, m |-> BShr(n, tz), e |-> e + tz]

Canon(s, n, e) ==
  IF n = <<>> THEN Zero ELSE CanonShift(s, n, e, BTrailingZeros(n))

\* The binary64 value nearest to (-1)^s * (n + t) * 2^e, where 0 < t < 1 if
\* sticky and t = 0 otherwise; a sticky n has at least 55 bits.  q is n cut to
\* 53 bits and c compares the bits cut off with one half: round to nearest,
\* ties to even.
RoundUp(s, q, e, c, sticky) ==
  Canon(s,
        IF c > 0 \/ (c = 0 /\ (sticky \/ q[1] % 2 = 1)) THEN BAdd(q, <<1>>) ELSE q,
        e)

RoundCut(s, n, q, e, sh, sticky) ==
  RoundUp(s, q, e + sh, BCmp(BSub(n, BShl(q, sh)), BShl(<<1>>, sh - 1)), sticky)

RoundLen(s, n, e, sticky, len) ==
  IF len <= 53 THEN Canon(s, n, e)
  ELSE RoundCut(s, n, BShr(n, len - 53), e, len - 53, sticky)

Round(s, n, e, sticky) ==
  IF n = <<>> THEN Zero ELSE RoundLen(s, n, e, sticky, BBitLen(n))

\* the rounded quotient of a division d = [q, r]
RoundQuot(s, d, e) == Round(s, d.q, e, d.r # <<>>)

FromInt(n) ==
  IF n < 0 THEN Canon(1, BFromNat(-n), 0) ELSE Canon(0, BFromNat(n), 0)

FNeg(a) == IF a.nan \/ a.m = <<>> THEN a ELSE [a EXCEPT !.s = 1 - a.s]

FIsZero(a) == ~a.nan /\ a.m = <<>>

\* sign of a - b (-1, 0, 1) for numbers a, b of the same sign with
\* magnitudes x and y on a common exponent
MagCmp(x, y, neg) == IF neg THEN BCmp(y, x) ELSE BCmp(x, y)

FCmpAligned(a, b, e0) ==
  MagCmp(BShl(a.m, a.e - e0), BShl(b.m, b.e - e0), a.s = 1)

\* sign of a - b (-1, 0, 1) for numbers a, b
FCmp(a, b) ==
  IF a.s # b.s /\ ~(a.m = <<>> /\ b.m = <<>>)
    THEN (IF a.m = <<>> THEN (IF b.s = 1 THEN 1 ELSE -1)
          ELSE IF b.m = <<>> THEN (IF a.s = 1 THEN -1 ELSE 1)
          ELSE IF a.s = 1 THEN -1 ELSE 1)
  ELSE FCmpAligned(a, b, Min(a.e, b.e))

FLt(a, b) == ~a.nan /\ ~b.nan /\ FCmp(a, b) < 0

FLe(a, b) == ~a.nan /\ ~b.nan /\ FCmp(a, b) <= 0

FGt(a, b) == ~a.nan /\ ~b.nan /\ FCmp(a, b) > 0

FGe(a, b) == ~a.nan /\ ~b.nan /\ FCmp(a, b) >= 0

\* the sum of (-1)^sa * x * 2^e0 and (-1)^sb * y * 2^e0
FAddMag(sa, sb, x, y, e0) ==
  IF sa = sb THEN Round(sa, BAdd(x, y), e0, FALSE)
  ELSE IF BCmp(x, y) >= 0 THEN Round(sa, BSub(x, y), e0, FALSE)
  ELSE Round(sb, BSub(y, x), e0, FALSE)

FAddAligned(a, b, e0) ==
  FAddMag(a.s, b.s, BShl(a.m, a.e - e0), BShl(b.m, b.e - e0), e0)

\* a + b
FAdd(a, b) ==
  IF a.nan \/ b.nan THEN NaN ELSE FAddAligned(a, b, Min(a.e, b.e))

\* a - b
FSub(a, b) == FAdd(a, FNeg(b))

\* a * b
FMul(a, b) ==
  IF a.nan \/ b.nan THEN NaN
  ELSE Round((a.s + b.s) % 2, BMul(a.m, b.m), a.e + b.e, FALSE)

\* a / b with the dividend scaled by 2^k
FDivScaled(a, b, k) ==
  RoundQuot((a.s + b.s) % 2, BDivMod(BShl(a.m, k), b.m), a.e - b.e - k)

\* a / b for b # 0
FDiv(a, b) ==
  IF a.nan \/ b.nan \/ b.m = <<>> THEN NaN
  ELSE IF a.m = <<>> THEN Zero
  ELSE FDivScaled(a, b, Max(0, 55 + BBitLen(b.m) - BBitLen(a.m)))

\* Math.floor of a number a with integer part q and a fraction
FFloorOf(s, q) == IF s = 0 THEN Canon(0, q, 0) ELSE Canon(1, BAdd(q, <<1>>), 0)

\* Math.floor(a)
FFloor(a) ==
  IF a.nan \/ a.e >= 0 THEN a ELSE FFloorOf(a.s, BShr(a.m, -a.e))

\* Math.ceil(a)
FCeil(a) == FNeg(FFloor(FNeg(a)))

FModAligned(a, b, e0) ==
  Canon(a.s, BDivMod(BShl(a.m, a.e - e0), BShl(b.m, b.e - e0)).r, e0)

\* a % b (the remainder takes the sign of a and is exact)
FMod(a, b) ==
  IF a.nan \/ b.nan \/ b.m = <<>> THEN NaN ELSE FModAligned(a, b, Min(a.e, b.e))

\* the integer value of a number holding a small integer
FToInt(a) ==
  IF a.s = 1 THEN -BToNat(BShl(a.m, a.e)) ELSE BToNat(BShl(a.m, a.e))

\* the correctly rounded value of n * 10^p, n a natural number (the value a
\* decimal literal or a parsed decimal string denotes)
RECURSIVE BPow10(_)
BPow10(k) ==
  IF k <= 9 THEN BFromNat(10^k) ELSE BMul(BFromNat(10^9), BPow10(k - 9))

\* n / pw with the dividend scaled by 2^k
DecScaled(s, n, pw, k) == RoundQuot(s, BDivMod(BShl(n, k), pw), -k)

DecDiv(s, n, pw) == DecScaled(s, n, pw, Max(0, 55 + BBitLen(pw) - BBitLen(n)))

DecBig(s, n, p) ==
  IF n = <<>> THEN Zero
  ELSE IF p >= 0 THEN Round(s, BMul(n, BPow10(p)), 0, FALSE)
  ELSE DecDiv(s, n, BPow10(-p))

\* the decimal literal n / 10^k
Dec(n, k) ==
  IF n < 0 THEN DecBig(1, BFromNat(-n), -k) ELSE DecBig(0, BFromNat(n), -k)

\* ------------------------------------------------------------------------
\* Constants and helpers of the source
\* ------------------------------------------------------------------------
\* Math.PI = 884279719003555 * 2^-48
PI == [nan |-> FALSE, s |-> 0, m |-> <<1443, 21777, 4349, 25>>, e |-> -48]

DEGS == FDiv(FromInt(180), PI)

RADS == FDiv(PI, FromInt(180))

AS == 0
SU == 1
MO == 2
MA == 3
ME == 4
JU == 5
VE == 6
SA == 7
RA == 8
KE == 9

\* zodiacNames, indexed from 0 in the source: the source's zodiacNames[n] is element n + 1
zodiacNames ==
  << "", "Aries", "Taurus", "Gemini", "Cancer", "Leo", "Virgo",
     "Libra", "Scorpio", "Sagittarius", "Capricorn", "Aquarius", "Pisces" >>

abs_(x) == IF FGe(x, Zero) THEN FFloor(x) ELSE FCeil(x)

\* q - _abs(q), the fraction the two reductions keep
fraction(q) == FSub(q, abs_(q))

\* if (a < 0) a = a + turn
wrap(a, turn) == IF FLt(a, Zero) THEN FAdd(a, turn) ELSE a

mod360(x) ==
  wrap(FMul(FromInt(360), fraction(FDiv(x, FromInt(360)))), FromInt(360))

\* 2 * Math.PI
twoPi == FMul(FromInt(2), PI)

mod2pi(x) == wrap(FMul(twoPi, fraction(FDiv(x, twoPi))), twoPi)

\* the bands of calcZodiac with every band closed below and open above
zodiacBandHalfOpen(d) ==
  IF FGe(d, Zero) /\ FLt(d, FromInt(30)) THEN 1
  ELSE IF FGe(d, FromInt(30)) /\ FLt(d, FromInt(60)) THEN 2
  ELSE IF FGe(d, FromInt(60)) /\ FLt(d, FromInt(90)) THEN 3
  ELSE IF FGe(d, FromInt(90)) /\ FLt(d, FromInt(120)) THEN 4
  ELSE IF FGe(d, FromInt(120)) /\ FLt(d, FromInt(150)) THEN 5
  ELSE IF FGe(d, FromInt(150)) /\ FLt(d, FromInt(180)) THEN 6
  ELSE IF FGe(d, FromInt(180)) /\ FLt(d, FromInt(210)) THEN 7
  ELSE IF FGe(d, FromInt(210)) /\ FLt(d, FromInt(240)) THEN 8
  ELSE IF FGe(d, FromInt(240)) /\ FLt(d, FromInt(270)) THEN 9
  ELSE IF FGe(d, FromInt(270)) /\ FLt(d, FromInt(300)) THEN 10
  ELSE IF FGe(d, FromInt(300)) /\ FLt(d, FromInt(330)) THEN 11
  ELSE 12

calcZodiacHalfOpen(deg) == zodiacBandHalfOpen(mod360(deg))

\* the chain of comparisons of calcZodiac on d = mod360(deg)
zodiacBand(d) ==
  IF FGe(d, Zero) /\ FLe(d, FromInt(30)) THEN 1
  ELSE IF FGt(d, FromInt(30)) /\ FLe(d, FromInt(60)) THEN 2
  ELSE IF FGt(d, FromInt(60)) /\ FLe(d, FromInt(90)) THEN 3
  ELSE IF FGt(d, FromInt(90)) /\ FLe(d, FromInt(120)) THEN 4
  ELSE IF FGt(d, FromInt(120)) /\ FLe(d, FromInt(150)) THEN 5
  ELSE IF FGt(d, FromInt(150)) /\ FLe(d, FromInt(180)) THEN 6
  ELSE IF FGt(d, FromInt(180)) /\ FLe(d, FromInt(210)) THEN 7
  ELSE IF FGt(d, FromInt(210)) /\ FLe(d, FromInt(240)) THEN 8
  ELSE IF FGt(d, FromInt(240)) /\ FLe(d, FromInt(270)) THEN 9
  ELSE IF FGt(d, FromInt(270)) /\ FLe(d, FromInt(300)) THEN 10
  ELSE IF FGt(d, FromInt(300)) /\ FLe(d, FromInt(330)) THEN 11
  ELSE 12

calcZodiac(deg) == zodiacBand(mod360(deg))

\* the nakshatras table, indexed from 0 in the source
nakshatras ==
  << [name |-> "Ashvini", lord |-> "Ke"], [name |-> "Bharani", lord |-> "Ve"],
     [name |-> "Krittika", lord |-> "Su"], [name |-> "Rohini", lord |-> "Mo"],
     [name |-> "Mrigashir", lord |-> "Ma"], [name |-> "Ardra", lord |-> "Ra"],
     [name |-> "Punarvasu", lord |-> "Ju"], [name |-> "Pushya", lord |-> "Sa"],
     [name |-> "Ashlesha", lord |-> "Me"], [name |-> "Magha", lord |-> "Ke"],
     [name |-> "P.Phalg", lord |-> "Ve"], [name |-> "U.Phalg", lord |-> "Su"],
     [name |-> "Hasta", lord |-> "Mo"], [name |-> "Chitra", lord |-> "Ma"],
     [name |-> "Svati", lord |-> "Ra"], [name |-> "Vishakha", lord |-> "Ju"],
     [name |-> "Anuradha", lord |-> "Sa"], [name |-> "Jyeshtha", lord |-> "Me"],
     [name |-> "Mula", lord |-> "Ke"], [name |-> "P.Shadha", lord |-> "Ve"],
     [name |-> "U.Shadha", lord |-> "Su"], [name |-> "Sravana", lord |-> "Mo"],
     [name |-> "Dhanista", lord |-> "Ma"], [name |-> "Shatabhi", lord |-> "Ra"],
     [name |-> "P.Bhadra", lord |-> "Ju"], [name |-> "U.Bhadra", lord |-> "Sa"],
     [name |-> "Revati", lord |-> "Me"] >>

\* the literals 13.3333 and 3.3333 of calcNakshatra
nakshatraSpan == Dec(133333, 4)

padaSpan == Dec(33333, 4)


\* let d = deg < 0 ? deg + 360 : deg
nakshatraDegree(deg) == IF FLt(deg, Zero) THEN FAdd(deg, FromInt(360)) ELSE deg

\* nakshatraIndex of calcNakshatra: Math.floor(d / 13.3333) % 27, an integer
\* (the remainder takes the sign of the dividend; -0 indexes like 0)
nakshatraIndex(deg) ==
  FToInt(FMod(FFloor(FDiv(nakshatraDegree(deg), nakshatraSpan)), FromInt(27)))

\* pada of calcNakshatra before the clamp: Math.floor(posInNakshatra / 3.3333) + 1
nakshatraPada(deg) ==
  FToInt(FFloor(FDiv(FMod(nakshatraDegree(deg), nakshatraSpan), padaSpan))) + 1

\* the object calcNakshatra returns for an index and a pada: reading .name of
\* nakshatras[nakshatraIndex] raises a TypeError when the index is outside
\* the table (threw = TRUE)
nakshatraResult(index, pada) ==
  IF index \in 0..26
    THEN [threw |-> FALSE, name |-> nakshatras[index + 1].name,
          lord |-> nakshatras[index + 1].lord,
          pada |-> IF pada < 4 THEN pada ELSE 4]
    ELSE [threw |-> TRUE, name |-> "", lord |-> "", pada |-> 0]

calcNakshatra(deg) == nakshatraResult(nakshatraIndex(deg), nakshatraPada(deg))

\* the 2005-2050 polynomial of calcDeltaT, t = y - 2000, c the correction term
poly2005(t, c) ==
  FAdd(FAdd(FAdd(Dec(6292, 2), FMul(Dec(32217, 5), t)),
            FMul(FMul(Dec(5589, 6), t), t)), c)

\* Math.pow(x, 2)
square(x) == FMul(x, x)

deltaT2005(y) ==
  poly2005(FSub(y, FromInt(2000)),
           FMul(Dec(-12932, 9), square(FSub(y, FromInt(1955)))))

\* the 1986-2005 polynomial of calcDeltaT, t = y - 2000
poly1986(t) ==
  FAdd(FAdd(FAdd(FSub(FAdd(Dec(386, 2), FMul(Dec(3345, 4), t)),
                      FMul(FMul(Dec(60374, 6), t), t)),
                 FMul(FMul(FMul(Dec(17275, 7), t), t), t)),
            FMul(FMul(FMul(FMul(Dec(651814, 9), t), t), t), t)),
       FMul(FMul(FMul(FMul(FMul(Dec(2373599, 11), t), t), t), t), t))

deltaT1986(y) == poly1986(FSub(y, FromInt(2000)))

\* calcDeltaT with the 1986-2005 polynomial as the default branch
deltaTOfNoDefault(y) ==
  IF FGt(y, FromInt(2005)) /\ FLe(y, FromInt(2050)) THEN deltaT2005(y)
  ELSE deltaT1986(y)

calcDeltaTNoDefault(year) ==
  deltaTOfNoDefault(FAdd(year, FDiv(Dec(5, 1), FromInt(12))))

\* the branches of calcDeltaT on y = year + 0.5 / 12
deltaTOf(y) ==
  IF FGt(y, FromInt(2005)) /\ FLe(y, FromInt(2050)) THEN deltaT2005(y)
  ELSE IF FGt(y, FromInt(1986)) /\ FLe(y, FromInt(2005)) THEN deltaT1986(y)
  ELSE Zero

calcDeltaT(year) == deltaTOf(FAdd(year, FDiv(Dec(5, 1), FromInt(12))))

\* ------------------------------------------------------------------------
\* Time and reference frame.  birthData is a record
\*   [yy, mm, dd |-> the date's getFullYear(), getMonth() + 1, getDate(),
\*    hours, minutes |-> time.hours, time.minutes (integers), tz |-> a number]
\* ------------------------------------------------------------------------
\* 2 - a + Math.floor(0.25 * a), the Gregorian correction of both day counts
gregorian(a) == FAdd(FSub(FromInt(2), a), FFloor(FMul(Dec(25, 2), a)))

\* a = Math.floor(0.01 * yy)
century(yy) == FFloor(FMul(Dec(1, 2), FromInt(yy)))

\* the sum calcDayNumber returns, for the shifted year yy and month mm
dayNumberOf(yy, mm, birthData) ==
  FAdd(FAdd(FSub(FAdd(FAdd(IF yy * 10000 + mm * 100 + birthData.dd > 15821004
                             THEN gregorian(century(yy)) ELSE Zero,
                           FFloor(FMul(Dec(36525, 2), FromInt(yy)))),
                      FFloor(FMul(Dec(306001, 4), FromInt(mm + 1)))),
                 Dec(7305505, 1)),
            FromInt(birthData.dd)),
       FDiv(FAdd(FSub(FromInt(birthData.hours), birthData.tz),
                 FDiv(FromInt(birthData.minutes), FromInt(60))),
            FromInt(24)))

calcDayNumber(birthData) ==
  IF birthData.mm < 3 THEN dayNumberOf(birthData.yy - 1, birthData.mm + 12, birthData)
  ELSE dayNumberOf(birthData.yy, birthData.mm, birthData)

\* Math.floor(x), one more if x - Math.floor(x) > 0.5
roundHalfUp(x, floorX) ==
  IF FGt(FSub(x, floorX), Dec(5, 1)) THEN FAdd(floorX, FromInt(1)) ELSE floorX

\* jd * 0.0000001 for jd the rounded (j + fc) * 10000000
julianScaled(x) == FMul(roundHalfUp(x, FFloor(x)), Dec(1, 7))

\* day j, day fraction df, fc = df + (minutes + dT / 60.0) / 60.0 / 24.0
julianOf(j, df, minutes, dT) ==
  julianScaled(FMul(FAdd(j, FAdd(df, FDiv(FDiv(FAdd(FromInt(minutes),
                                                    FDiv(dT, FromInt(60))),
                                               FromInt(60)), FromInt(24)))),
                    FromInt(10000000)))

\* if (df < 0.0) { df += 1.0; --j; }
julianAt(j, df, birthData) ==
  IF FLt(df, Zero)
    THEN julianOf(FSub(j, FromInt(1)), FAdd(df, FromInt(1)), birthData.minutes,
                  calcDeltaT(FromInt(birthData.yy)))
    ELSE julianOf(j, df, birthData.minutes, calcDeltaT(FromInt(birthData.yy)))

\* the day count j for the shifted year jy and month jm
julianDay(jy, jm, birthData) ==
  FAdd(FAdd(FAdd(FAdd(FFloor(FMul(Dec(36525, 2), FromInt(jy))),
                      FFloor(FMul(Dec(306001, 4), FromInt(jm)))),
                 FromInt(birthData.dd)), FromInt(1720995)),
       IF birthData.dd + 31 * (birthData.mm + 12 * birthData.yy) >= 588829
         THEN gregorian(century(jy)) ELSE Zero)

julianFrom(jy, jm, birthData) ==
  julianAt(julianDay(jy, jm, birthData),
           FSub(FDiv(FSub(FromInt(birthData.hours), birthData.tz), FromInt(24)),
                Dec(5, 1)),
           birthData)

calcJulianDate(birthData) ==
  IF birthData.mm > 2 THEN julianFrom(birthData.yy, birthData.mm + 1, birthData)
  ELSE julianFrom(birthData.yy - 1, birthData.mm + 13, birthData)

\* a + b of calcAyanamsa for c = yy * 1.0 / d
ayanamsaOf(c, d, birthData) ==
  FAdd(FSub(FAdd(Dec(-692416, 5), FMul(Dec(1690709, 5), c)),
            FMul(FMul(Dec(757371, 6), c), c)),
       FDiv(FMul(FAdd(FromInt(birthData.mm), FDiv(FromInt(birthData.dd), FromInt(30))),
                 Dec(11574074, 7)), d))

ayanamsaBy(d, birthData) ==
  ayanamsaOf(FDiv(FMul(FromInt(birthData.yy), FromInt(1)), d), d, birthData)

calcAyanamsa(birthData) ==
  ayanamsaBy(IF birthData.yy < 100 THEN FromInt(10) ELSE FromInt(1000), birthData)

\* mean elements of calcPlanetPosition: L and rate per planet index
elements ==
  [p \in {SU, MO, MA, ME, JU, VE, SA} |->
     CASE p = SU -> [L |-> Dec(28046457, 5), rate |-> Dec(98564736, 8)]
       [] p = MO -> [L |-> Dec(218316, 3),   rate |-> Dec(13176396, 6)]
       [] p = MA -> [L |-> Dec(3554533, 4),  rate |-> Dec(524071, 6)]
       [] p = ME -> [L |-> Dec(252251, 3),   rate |-> Dec(409233, 5)]
       [] p = JU -> [L |-> Dec(344044, 4),   rate |-> Dec(8309, 5)]
       [] p = VE -> [L |-> Dec(1819798, 4),  rate |-> Dec(160214, 5)]
       [] p = SA -> [L |-> Dec(499443, 4),   rate |-> Dec(3346, 5)]]

calcPlanetPosition(planet, dn) ==
  IF planet \in DOMAIN elements
    THEN mod360(FAdd(elements[planet].L, FMul(elements[planet].rate, dn)))
    ELSE Zero

\* the node's tropical longitude n for T Julian centuries
nodeOf(T) ==
  FMul(mod2pi(FMul(FAdd(FSub(FSub(Dec(259183275, 6), FMul(FromInt(1800), T)),
                             FMul(Dec(134142008, 6), T)),
                        FMul(FMul(Dec(2078, 6), T), T)),
                   RADS)),
       DEGS)

calcMoonAscendingNode(birthData) ==
  FSub(nodeOf(FDiv(FSub(calcJulianDate(birthData), Dec(24150205, 1)), FromInt(36525))),
       calcAyanamsa(birthData))

\* ------------------------------------------------------------------------
\* calculateChart.  calcAscendant and calcMoonPosition are built on
\* Math.sin / Math.cos / Math.atan2, which are not modelled: the two values
\* the chart takes from them, ascDeg = calcAscendant(birthData) - ay and
\* calcMoonPosition(birthData) - ay, are inputs of the model (case.ascDeg,
\* case.moonSid).  Everything else is computed from birthData.
\* ------------------------------------------------------------------------
planetNames ==
  [p \in AS..KE |->
     CASE p = AS -> "As" [] p = SU -> "Su" [] p = MO -> "Mo" [] p = MA -> "Ma"
       [] p = ME -> "Me" [] p = JU -> "Ju" [] p = VE -> "Ve" [] p = SA -> "Sa"
       [] p = RA -> "Ra" [] p = KE -> "Ke"]

\* rashisOf wrapping one house early (>= 12 for > 12)
rashisOfEarlyWrap(ascZodiac) ==
  [i \in 0..11 |->
     IF ascZodiac + i >= 12
       THEN 1 + Cardinality({k \in 0..(i - 1) : ascZodiac + k >= 12})
       ELSE ascZodiac + i]

\* the sign sequence starting at the ascendant's sign; x counts the wraps
rashisOf(ascZodiac) ==
  [i \in 0..11 |->
     IF ascZodiac + i > 12
       THEN 1 + Cardinality({k \in 0..(i - 1) : ascZodiac + k > 12})
       ELSE ascZodiac + i]

navamsa(deg) == calcZodiac(FMul(mod2pi(FMul(FMul(deg, FromInt(9)), RADS)), DEGS))

\* the record of body p at longitude ra, in sign zn, with calcNakshatra's result nak
bodyRecord(p, ra, zn, nak) ==
  [name |-> planetNames[p], index |-> p, ra |-> ra, zodiac |-> zodiacNames[zn + 1],
   degree |-> FMod(ra, FromInt(30)), rasizn |-> zn, navzn |-> navamsa(ra),
   nakshatra |-> nak.name, nakshatraLord |-> nak.lord,
   nakshatraPada |-> nak.pada, threw |-> nak.threw]

\* the argument of the calcZodiac call that sets rasizn: the ascendant's sign
\* comes from the raw ascDeg, every other body's from its reduced longitude
zodiacArgOf(p, case, ra) == IF p = AS THEN case.ascDeg ELSE ra

\* the record calculateChart assigns to planets[p] for the longitude ra
planetRecord(p, case, ra) ==
  bodyRecord(p, ra, calcZodiac(zodiacArgOf(p, case, ra)), calcNakshatra(ra))

rahuDegOf(birthData) == mod360(calcMoonAscendingNode(birthData))

\* ketuDegOf without the reduction modulo 360
ketuDegOfNoWrap(rahuDeg) == FAdd(rahuDeg, FromInt(180))

ketuDegOf(rahuDeg) == mod360(FAdd(rahuDeg, FromInt(180)))

\* housesOf with the inner loop stopping one body early (j < 9)
housesOfSkipLast(rashis, planets) ==
  [i \in 0..11 |->
     LET hit(j) == rashis[i] = planets[j - 1].rasizn
         idx    == SelectSeq([j \in 1..9 |-> j], hit)
     IN  [k \in 1..Len(idx) |-> planets[idx[k] - 1].name]]

\* houses[i] lists, in body order, the names of the bodies whose sign is rashis[i]
housesOf(rashis, planets) ==
  [i \in 0..11 |->
     LET hit(j) == rashis[i] = planets[j - 1].rasizn
         idx    == SelectSeq([j \in 1..10 |-> j], hit)
     IN  [k \in 1..Len(idx) |-> planets[idx[k] - 1].name]]

\* the longitude before its reduction to a turn: ascDeg, moonDeg and the
\* planets' mean longitudes less the ayanamsa
siderealOf(p, case, ay, dn) ==
  CASE p = AS -> case.ascDeg
    [] p = MO -> case.moonSid
    [] OTHER  -> FSub(calcPlanetPosition(p, dn), ay)

\* the ra of body p
longitudeIn(p, case, ay, dn, rahuDeg) ==
  CASE p = RA -> rahuDeg
    [] p = KE -> ketuDegOf(rahuDeg)
    [] OTHER  -> mod360(siderealOf(p, case, ay, dn))

\* the planets array: empty at first, then planets[AS] .. planets[KE] assigned
\* in this order (element q is planets[q - 1])
planetsPushed(case, ay, dn, rahuDeg) ==
  <<>> \o [q \in 1..10 |->
            planetRecord(q - 1, case, longitudeIn(q - 1, case, ay, dn, rahuDeg))]

\* the planets array, indexed by the planet numbers AS..KE
planetsFrom(bodies) == [p \in AS..KE |-> bodies[p + 1]]

planetsOf(case, ay, dn, rahuDeg) == planetsFrom(planetsPushed(case, ay, dn, rahuDeg))

chartWith(planets, rashis) ==
  [planets |-> planets, rashis |-> rashis,
   houses  |-> housesOf(rashis, planets),
   threw   |-> \E p \in AS..KE : planets[p].threw]

chartOf(planets) == chartWith(planets, rashisOf(planets[AS].rasizn))

calculateChart(case) ==
  chartOf(planetsOf(case, calcAyanamsa(case.birthData), calcDayNumber(case.birthData),
                    rahuDegOf(case.birthData)))

\* ------------------------------------------------------------------------
\* parseLatitude / parseLongitude.  A string is a sequence of one-character
\* strings.  Numbers that parse here stay far inside the binary64 range.
\* ------------------------------------------------------------------------
isDigit(c) == c \in {"0", "1", "2", "3", "4", "5", "6", "7", "8", "9"}

digitValue(c) ==
  CASE c = "0" -> 0 [] c = "1" -> 1 [] c = "2" -> 2 [] c = "3" -> 3 [] c = "4" -> 4
    [] c = "5" -> 5 [] c = "6" -> 6 [] c = "7" -> 7 [] c = "8" -> 8 [] c = "9" -> 9

\* number of consecutive digits of s starting at position i
digitRun(s, i) ==
  MaxOf({n \in 0..(Len(s) + 1 - Min(i, Len(s) + 1)) :
           \A k \in i..(i + n - 1) : isDigit(s[k])})

RECURSIVE digitsValue(_)
digitsValue(ds) ==
  IF ds = <<>> THEN 0
  ELSE 10 * digitsValue(SubSeq(ds, 1, Len(ds) - 1)) + digitValue(ds[Len(ds)])

\* input.replace(/\s+/g, "")
stripSpaces(s) == SelectSeq(s, LAMBDA c : c # " ")

upperChar(c) ==
  CASE c = "a" -> "A" [] c = "e" -> "E" [] c = "n" -> "N" [] c = "s" -> "S"
    [] c = "w" -> "W" [] OTHER -> c

toUpperCase(s) == [i \in 1..Len(s) |-> upperChar(s[i])]

\* s.indexOf(c) !== -1
contains(s, c) == \E i \in 1..Len(s) : s[i] = c

\* s.split(c) for a string that contains c: its first two parts
split(s, c) ==
  LET cuts == {i \in 1..Len(s) : s[i] = c}
      i1   == MinOf(cuts)
      rest == {i \in cuts : i > i1}
      i2   == IF rest = {} THEN Len(s) + 1 ELSE MinOf(rest)
  IN  << SubSeq(s, 1, i1 - 1), SubSeq(s, i1 + 1, i2 - 1) >>

\* the position of the first character of s that is not a space
firstNonSpace(s) ==
  MinOf({i \in 1..(Len(s) + 1) : i = Len(s) + 1 \/ s[i] # " "})

\* parseInt(s), radix 10: optional sign, then the longest run of digits
parseInt(s) ==
  LET i0  == firstNonSpace(s)
      neg == i0 <= Len(s) /\ s[i0] = "-"
      i   == IF i0 <= Len(s) /\ s[i0] \in {"-", "+"} THEN i0 + 1 ELSE i0
      n   == digitRun(s, i)
      v   == FromInt(digitsValue(SubSeq(s, i, i + n - 1)))
  IN  IF n = 0 THEN NaN ELSE IF neg THEN FNeg(v) ELSE v

\* parseFloat(s): the longest prefix that is a decimal literal
parseFloat(s) ==
  LET i0   == firstNonSpace(s)
      neg  == i0 <= Len(s) /\ s[i0] = "-"
      i    == IF i0 <= Len(s) /\ s[i0] \in {"-", "+"} THEN i0 + 1 ELSE i0
      ip   == digitRun(s, i)
      j    == i + ip
      dot  == j <= Len(s) /\ s[j] = "."
      fp   == IF dot THEN digitRun(s, j + 1) ELSE 0
      k    == IF dot THEN j + 1 + fp ELSE j
      hasE == k <= Len(s) /\ s[k] \in {"e", "E"}
      eneg == hasE /\ k + 1 <= Len(s) /\ s[k + 1] = "-"
      ei   == IF hasE /\ k + 1 <= Len(s) /\ s[k + 1] \in {"-", "+"} THEN k + 2 ELSE k + 1
      ep   == IF hasE THEN digitRun(s, ei) ELSE 0
      ev   == digitsValue(SubSeq(s, ei, ei + ep - 1))
      exp  == IF eneg THEN -ev ELSE ev
      mant == digitsValue(SubSeq(s, i, i + ip - 1) \o SubSeq(s, j + 1, j + fp))
  IN  IF ip = 0 /\ fp = 0 THEN NaN
      ELSE DecBig(IF neg THEN 1 ELSE 0, BFromNat(mant), exp - fp)

\* x || 0 for a number x
orZero(x) == IF x.nan \/ FIsZero(x) THEN Zero ELSE x

\* parseInt(parts[0]) + (parseInt(parts[1]) || 0) / 60
degreesMinutes(parts) ==
  FAdd(parseInt(parts[1]), FDiv(orZero(parseInt(parts[2])), FromInt(60)))

parseLatitude(input) ==
  LET tmp == toUpperCase(stripSpaces(input))
  IN  IF contains(tmp, "N") THEN degreesMinutes(split(tmp, "N"))
      ELSE IF contains(tmp, "S") THEN FNeg(degreesMinutes(split(tmp, "S")))
      ELSE orZero(parseFloat(input))

parseLongitude(input) ==
  LET tmp == toUpperCase(stripSpaces(input))
  IN  IF contains(tmp, "E") THEN degreesMinutes(split(tmp, "E"))
      ELSE IF contains(tmp, "W") THEN FNeg(degreesMinutes(split(tmp, "W")))
      ELSE orZero(parseFloat(input))

\* ------------------------------------------------------------------------
\* State: one call of one exported or internal function.
\*   fn  - the function called        arg - its input
\*   ret - its result once returned   pc  - "call" before, "done" after
\* ------------------------------------------------------------------------
VARIABLES fn, arg, ret, pc

vars == <<fn, arg, ret, pc>>

\* ---- calculateChart ----------------------------------------------------
\* birth dates 0..MaxDate, ascendant values 0..MaxAsc, moon values 0..MaxMoon
MaxDate == 1
MaxAsc == 22
MaxMoon == 1

birthDataOf(i) ==
  [yy |-> 1990 + 17 * i, mm |-> 1 + ((5 * i) % 12), dd |-> 4 + ((11 * i) % 25),
   hours |-> (6 + 7 * i) % 24, minutes |-> (30 + 13 * i) % 60,
   tz |-> Dec(55 - 35 * i, 1)]

\* calcAscendant(birthData) - ay lies in (-180 - ay, 180 - ay], ay about 24:
\* every 15 degrees from -195, so that all twelve signs and their
\* boundaries occur
ascDegOf(j) == FromInt(15 * j - 195)

\* calcMoonPosition(birthData) - ay lies in [-ay, 360 - ay)
moonSidOf(k) == FromInt(45 * k - 15)

ChartCases ==
  {[birthData |-> birthDataOf(i), ascDeg |-> ascDegOf(j), moonSid |-> moonSidOf(k)] :
     i \in 0..MaxDate, j \in 0..MaxAsc, k \in 0..MaxMoon}

Init ==
  /\ fn = "calculateChart"
  /\ arg \in ChartCases
  /\ ret = "none"
  /\ pc = "call"

CalculateChart ==
  /\ pc = "call"
  /\ fn = "calculateChart"
  /\ ret' = calculateChart(arg)
  /\ pc' = "done"
  /\ UNCHANGED <<fn, arg>>

Next == CalculateChart

Spec == Init /\ [][Next]_vars

\* ---- calcZodiac ----------------------------------------------------------
\* longitudes L + 360 k: L on the 0.0001-degree grid of [0, 360] at, just
\* below, just above and halfway past every multiple of 30; k in -MaxTurns..MaxTurns
MaxTurns == 2

gridPoints == {300000 * n + off : n \in 0..12, off \in {-1, 0, 1, 150000}}

ZodiacCases ==
  {[L |-> g, k |-> k] : g \in {x \in gridPoints : x >= 0 /\ x <= 3600000},
                        k \in (-MaxTurns)..MaxTurns}

\* the number L / 10^4 + 360 k
longitudeOf(c) == FAdd(Dec(c.L, 4), FromInt(360 * c.k))

InitZodiac ==
  /\ fn = "calcZodiac"
  /\ arg \in ZodiacCases
  /\ ret = "none"
  /\ pc = "call"

CalcZodiac ==
  /\ pc = "call"
  /\ fn = "calcZodiac"
  /\ ret' = calcZodiac(longitudeOf(arg))
  /\ pc' = "done"
  /\ UNCHANGED <<fn, arg>>

NextZodiac == CalcZodiac

SpecZodiac == InitZodiac /\ [][NextZodiac]_vars

\* ---- calcNakshatra -------------------------------------------------------
\* longitudes on the 0.0001-degree grid at, just below and inside every
\* 13.3333-degree span from -MaxSpan to MaxSpan spans (about -733 to 733)
MaxSpan == 55

NakshatraCases ==
  {133333 * n + off : n \in (-MaxSpan)..MaxSpan, off \in {-8, 0, 50000}}

InitNakshatra ==
  /\ fn = "calcNakshatra"
  /\ arg \in NakshatraCases
  /\ ret = "none"
  /\ pc = "call"

CalcNakshatra ==
  /\ pc = "call"
  /\ fn = "calcNakshatra"
  /\ ret' = calcNakshatra(Dec(arg, 4))
  /\ pc' = "done"
  /\ UNCHANGED <<fn, arg>>

NextNakshatra == CalcNakshatra

SpecNakshatra == InitNakshatra /\ [][NextNakshatra]_vars

\* ---- calcDeltaT ----------------------------------------------------------
\* calendar years FirstYear..LastYear
FirstYear == 1880
LastYear == 2080

InitDeltaT ==
  /\ fn = "calcDeltaT"
  /\ arg \in FirstYear..LastYear
  /\ ret = "none"
  /\ pc = "call"

CalcDeltaT ==
  /\ pc = "call"
  /\ fn = "calcDeltaT"
  /\ ret' = calcDeltaT(FromInt(arg))
  /\ pc' = "done"
  /\ UNCHANGED <<fn, arg>>

NextDeltaT == CalcDeltaT

SpecDeltaT == InitDeltaT /\ [][NextDeltaT]_vars

\* ---- parseLatitude / parseLongitude --------------------------------------
\* input strings of at most MaxLen characters over Alphabet
MaxLen == 3

Alphabet == {"1", "2", ".", "-", " ", "N", "s", "E", "w", "a"}

Strings == UNION {[1..n -> Alphabet] : n \in 0..MaxLen}

InitParse ==
  /\ fn \in {"parseLatitude", "parseLongitude"}
  /\ arg \in Strings
  /\ ret = "none"
  /\ pc = "call"

ParseLatitude ==
  /\ pc = "call"
  /\ fn = "parseLatitude"
  /\ ret' = parseLatitude(arg)
  /\ pc' = "done"
  /\ UNCHANGED <<fn, arg>>

ParseLongitude ==
  /\ pc = "call"
  /\ fn = "parseLongitude"
  /\ ret' = parseLongitude(arg)
  /\ pc' = "done"
  /\ UNCHANGED <<fn, arg>>

NextParse == ParseLatitude \/ ParseLongitude

SpecParse == InitParse /\ [][NextParse]_vars

\* ------------------------------------------------------------------------
\* Properties
\* ------------------------------------------------------------------------
Done == pc = "done"

\* the houses (0..11) whose list holds the name
housesHolding(houses, name) ==
  {i \in 0..11 : \E k \in 1..Len(houses[i]) : houses[i][k] = name}

\* how often the name occurs in all the house lists together
occurrences(houses, name) ==
  Cardinality({<<i, k>> \in (0..11) \X (1..10) :
                 k <= Len(houses[i]) /\ houses[i][k] = name})

\* C1: rashis has the 12 entries rashis[i] = ((ascSign + i - 1) mod 12) + 1,
\* i in 0..11, for the ascendant's sign ascSign in 1..12; it is a permutation
\* of 1..12 and rashis[0] is the ascendant's sign.
C1_RashisRotation ==
  Done =>
    LET ascSign == ret.planets[AS].rasizn
    IN  /\ ascSign \in 1..12
        /\ DOMAIN ret.rashis = 0..11
        /\ \A i \in 0..11 : ret.rashis[i] = ((ascSign + i - 1) % 12) + 1
        /\ {ret.rashis[i] : i \in 0..11} = 1..12
        /\ ret.rashis[0] = ascSign

\* a chart whose ascendant is in sign 8, so that the sequence wraps at house 5
C1_Witness ==
  /\ Done
  /\ ret.planets[AS].rasizn = 8
  /\ ret.rashis[4] = 12
  /\ ret.rashis[5] = 1
  /\ ret.rashis[11] = 7

\* C2: every body's name occurs exactly once in the 12 house lists, in the
\* house i with rashis[i] = the body's rasizn, and the lists hold nothing else.
C2_OneHousePerBody ==
  Done =>
    /\ \A p \in AS..KE :
         /\ occurrences(ret.houses, ret.planets[p].name) = 1
         /\ \A i \in housesHolding(ret.houses, ret.planets[p].name) :
              ret.rashis[i] = ret.planets[p].rasizn
    /\ \A i \in 0..11 : \A k \in 1..Len(ret.houses[i]) :
         \E p \in AS..KE : ret.houses[i][k] = ret.planets[p].name

\* a chart with a house of several bodies, an empty house, and Ketu placed
C2_Witness ==
  /\ Done
  /\ \E i \in 0..11 : Len(ret.houses[i]) >= 2
  /\ \E i \in 0..11 : Len(ret.houses[i]) = 0
  /\ housesHolding(ret.houses, "Ke") # {}
  /\ ret.planets[KE].rasizn # ret.planets[AS].rasizn

\* C3: Ketu's longitude is mod360(Rahu's longitude + 180), and both lie in
\* [0, 360).
C3_KetuOppositeRahu ==
  Done =>
    LET rahu == ret.planets[RA].ra
        ketu == ret.planets[KE].ra
    IN  /\ ketu = mod360(FAdd(rahu, FromInt(180)))
        /\ FGe(rahu, Zero) /\ FLt(rahu, FromInt(360))
        /\ FGe(ketu, Zero) /\ FLt(ketu, FromInt(360))

\* a chart whose Rahu is past 180, so that Rahu + 180 is reduced
C3_Witness ==
  /\ Done
  /\ FGt(ret.planets[RA].ra, FromInt(180))
  /\ FLt(ret.planets[KE].ra, FromInt(180))

\* C10 as claimed: in every body record degree is in [0, 30) and
\* ra = 30 * (rasizn - 1) + degree, for ra in [0, 360), multiples of 30 included.
C10_SignDegreeDecomposition ==
  Done =>
    \A p \in AS..KE :
      LET r == ret.planets[p]
      IN  (FGe(r.ra, Zero) /\ FLt(r.ra, FromInt(360))) =>
            /\ FGe(r.degree, Zero) /\ FLt(r.degree, FromInt(30))
            /\ r.ra = FAdd(FromInt(30 * (r.rasizn - 1)), r.degree)

\* C4 as claimed: calcZodiac(0.0) = 1, calcZodiac(30.0) = 1,
\* calcZodiac(30.0001) = 2, calcZodiac(360.0) = 12, and every boundary n * 30,
\* n in 1..12, is in band n.
C4_BoundariesAsClaimed ==
  (Done /\ arg.k = 0) =>
    /\ arg.L = 0 => ret = 1
    /\ arg.L = 300001 => ret = 2
    /\ \A n \in 1..12 : arg.L = 300000 * n => ret = n

\* C4 amended: calcZodiac(0.0) = 1, calcZodiac(30.0) = 1,
\* calcZodiac(30.0001) = 2; every boundary n * 30, n in 1..11, is in band n
\* and the value just above it in band n + 1; 360.0 is reduced to 0 and is in
\* band 1.
C4_Boundaries ==
  (Done /\ arg.k = 0) =>
    /\ arg.L = 0 => ret = 1
    /\ arg.L = 300001 => ret = 2
    /\ \A n \in 1..11 : /\ arg.L = 300000 * n => ret = n
                        /\ arg.L = 300000 * n + 1 => ret = n + 1
    /\ arg.L = 3600000 => ret = 1

\* calcZodiac(360.0) has returned 1
C4_Witness == Done /\ arg.k = 0 /\ arg.L = 3600000 /\ ret = 1

\* C5 as claimed: calcZodiac(L + 360 k) is in 1..12 and equals calcZodiac(L),
\* for L on the grid and every integer k.
C5_RangeAndPeriodicity ==
  Done => /\ ret \in 1..12
          /\ ret = calcZodiac(Dec(arg.L, 4))

\* C6 as claimed: for every degree D calcNakshatra(D) completes, with an
\* index in 0..26 (a name of the table) and a pada in 1..4.
C6_NakshatraTotal ==
  Done => /\ ~ret.threw
          /\ nakshatraIndex(Dec(arg, 4)) \in 0..26
          /\ \E n \in 1..27 : nakshatras[n].name = ret.name
          /\ ret.pada \in 1..4

\* C7 as claimed: calcNakshatra(D) and calcNakshatra(D + 360) select the same
\* nakshatra (index, name and lord), here whenever both calls complete.
C7_FullTurnStable ==
  Done =>
    LET turned == FAdd(Dec(arg, 4), FromInt(360))
        other  == calcNakshatra(turned)
    IN  (~ret.threw /\ ~other.threw) =>
          /\ nakshatraIndex(Dec(arg, 4)) = nakshatraIndex(turned)
          /\ ret.name = other.name
          /\ ret.lord = other.lord

\* C9: calcDeltaT(year) is 0 for every integer year before 1986 or after
\* 2050; for 2030 it is the value of the 2005-2050 polynomial, which is
\* positive and differs from the 1986-2005 polynomial's.
C9_DeltaTBranches ==
  Done =>
    LET y == FAdd(FromInt(arg), FDiv(Dec(5, 1), FromInt(12)))
    IN  /\ (arg < 1986 \/ arg > 2050) => ret = Zero
        /\ arg = 2030 => /\ ret = deltaT2005(y)
                         /\ ret # deltaT1986(y)
                         /\ FGt(ret, Zero)

\* calcDeltaT(2030) has returned a positive value
C9_Witness == Done /\ arg = 2030 /\ FGt(ret, FromInt(70))

\* the characters of a string that are digits
hasDigit(s) == \E i \in 1..Len(s) : isDigit(s[i])

\* C8 as claimed: parseLatitude and parseLongitude return a number for every
\* string, never not-a-number, and 0 when the string holds no digit to parse.
C8_ParseNeverNaN ==
  Done => /\ ~ret.nan
          /\ ~hasDigit(arg) => ret = Zero

====
